---- MODULE Spec2Model ----
(***************************************************************************)
(* A model of the monkey_rust front end: the position-threaded tokenizer   *)
(* of src/src/lexer.rs with the keyword table of src/src/token.rs, and the *)
(* statement parser of src/src/parser.rs.                                  *)
(*                                                                         *)
(* A character is a one-character string, a text is a sequence of          *)
(* characters, and positions are 0-based as in the source.                 *)
(***************************************************************************)
EXTENDS Integers, Sequences, FiniteSets, TLC

VARIABLES
    input,          \* Lexer.input: the source text
    position,       \* the position the next Lexer::next_token call is given
    tok,            \* the token the last Lexer::next_token call returned
    read_position,  \* the position the last call returned
    at,             \* the position the last call was given
    calls,          \* number of calls that fed the returned position forward
    p,              \* the Parser struct: l, errors, cur_token, peek_token
    program,        \* Program.statements under construction
    stmt,           \* the Option<Statement> of the statement being parsed
    pc,             \* where parse_program stands
    out             \* the String the last string() call returned

vars == <<input, position, tok, read_position, at, calls, p, program, stmt, pc,
          out>>

lexvars == <<position, tok, read_position, at, calls>>
parservars == <<p, program, stmt, pc>>

(***************************************************************************)
(* Bounds                                                                  *)
(***************************************************************************)
MaxLen == 4          \* longest text enumerated over Alphabet
MaxExtraCalls == 2   \* calls allowed beyond one per character of the text
MaxStmts == 3        \* most statements of a generated program text
MaxWords == 4        \* most words of a free word sequence
MaxNodes == 2        \* most statements of a Program built by hand

(***************************************************************************)
(* Characters                                                              *)
(***************************************************************************)
None == "NONE"       \* Option::None of an Option<char>

LowerCase == {"a","b","c","d","e","f","g","h","i","j","k","l","m",
              "n","o","p","q","r","s","t","u","v","w","x","y","z"}
UpperCase == {"A","B","C","D","E","F","G","H","I","J","K","L","M",
              "N","O","P","Q","R","S","T","U","V","W","X","Y","Z"}
Digits == {"0","1","2","3","4","5","6","7","8","9"}
Whitespace == {" ", "\t", "\n", "\f", "\r"}

is_letter(ch) == ch \in LowerCase \cup UpperCase \/ ch = "_"

is_ascii_digit(ch) == ch \in Digits

is_ascii_whitespace(ch) == ch \in Whitespace

(***************************************************************************)
(* token.rs                                                                *)
(***************************************************************************)
KEYWORDS ==
    << <<(<<"f","n">>), "FUNCTION">>,
       <<(<<"l","e","t">>), "LET">>,
       <<(<<"t","r","u","e">>), "TRUE">>,
       <<(<<"f","a","l","s","e">>), "FALSE">>,
       <<(<<"i","f">>), "IF">>,
       <<(<<"e","l","s","e">>), "ELSE">>,
       <<(<<"r","e","t","u","r","n">>), "RETURN">> >>

RECURSIVE find_map(_, _)
find_map(ident, i) ==
    IF i > Len(KEYWORDS) THEN None
    ELSE IF KEYWORDS[i][1] = ident THEN KEYWORDS[i][2]
    ELSE find_map(ident, i + 1)

\* variant: a keyword that is a prefix of the text is taken for the text
lookup_ident_Prefix(ident) ==
    LET hits == {i \in 1..Len(KEYWORDS) :
                    /\ Len(KEYWORDS[i][1]) <= Len(ident)
                    /\ SubSeq(ident, 1, Len(KEYWORDS[i][1])) = KEYWORDS[i][1]}
    IN IF hits # {}
       THEN KEYWORDS[CHOOSE i \in hits : \A j \in hits : i <= j][2]
       ELSE "IDENT"

lookup_ident(ident) ==
    IF find_map(ident, 1) # None THEN find_map(ident, 1) ELSE "IDENT"

Token(token_type, literal) == [token_type |-> token_type, literal |-> literal]

(***************************************************************************)
(* lexer.rs                                                                *)
(***************************************************************************)
new_token(token_type, ch) == Token(token_type, <<ch>>)

read_char(in, pos) == IF pos < Len(in) THEN in[pos + 1] ELSE None

RECURSIVE read_identifier(_, _)
read_identifier(in, pos) ==
    IF read_char(in, pos) = None THEN pos
    ELSE IF ~is_letter(read_char(in, pos)) THEN pos
    ELSE read_identifier(in, pos + 1)

\* variant: only the space character is skipped
RECURSIVE skip_whitespace_SpaceOnly(_, _)
skip_whitespace_SpaceOnly(in, pos) ==
    IF read_char(in, pos) = None THEN pos
    ELSE IF read_char(in, pos) # " " THEN pos
    ELSE skip_whitespace_SpaceOnly(in, pos + 1)

RECURSIVE skip_whitespace(_, _)
skip_whitespace(in, pos) ==
    IF read_char(in, pos) = None THEN pos
    ELSE IF ~is_ascii_whitespace(read_char(in, pos)) THEN pos
    ELSE skip_whitespace(in, pos + 1)

RECURSIVE read_number(_, _)
read_number(in, pos) ==
    IF read_char(in, pos) = None THEN pos
    ELSE IF ~is_ascii_digit(read_char(in, pos)) THEN pos
    ELSE read_number(in, pos + 1)

\* self.input[a..b]
Slice(in, a, b) == SubSeq(in, a + 1, b)

SingleCharKinds ==
    [x \in {"+","-","/","*","<",">",";",",","(",")","{","}"} |->
        CASE x = "+" -> "PLUS"
          [] x = "-" -> "MINUS"
          [] x = "/" -> "SLASH"
          [] x = "*" -> "ASTERISK"
          [] x = "<" -> "LT"
          [] x = ">" -> "GT"
          [] x = ";" -> "SEMICOLON"
          [] x = "," -> "COMMA"
          [] x = "(" -> "LPAREN"
          [] x = ")" -> "RPAREN"
          [] x = "{" -> "LBRACE"
          [] x = "}" -> "RBRACE"]

\* variant: the second character of "==" and "!=" is not stepped over
TwoCharArm_NoStep(in, pos, ch, double, single) ==
    IF read_char(in, pos + 1) # None /\ read_char(in, pos + 1) = "="
    THEN [tok |-> Token(double, <<ch, read_char(in, pos + 1)>>),
          position |-> pos]
    ELSE [tok |-> new_token(single, ch), position |-> pos]

\* the two-character arm shared by '=' and '!': Some(tok) iff the next
\* character is '='
TwoCharArm(in, pos, ch, double, single) ==
    IF read_char(in, pos + 1) # None /\ read_char(in, pos + 1) = "="
    THEN [tok |-> Token(double, <<ch, read_char(in, pos + 1)>>),
          position |-> pos + 1]
    ELSE [tok |-> new_token(single, ch), position |-> pos]

\* the match on ch: the token and the value of `position` after the arm
MatchChar(in, pos, ch) ==
    CASE ch = "=" -> TwoCharArm(in, pos, ch, "EQ", "ASSIGN")
      [] ch = "!" -> TwoCharArm(in, pos, ch, "NOTEQ", "BANG")
      [] ch \in DOMAIN SingleCharKinds ->
            [tok |-> new_token(SingleCharKinds[ch], ch), position |-> pos]
      [] OTHER ->
            IF is_letter(ch) THEN
                LET rp == read_identifier(in, pos)
                    literal == Slice(in, pos, rp)
                IN [tok |-> Token(lookup_ident(literal), literal),
                    position |-> rp - 1]
            ELSE IF is_ascii_digit(ch) THEN
                LET rp == read_number(in, pos)
                    literal == Slice(in, pos, rp)
                IN [tok |-> Token("INT", literal), position |-> rp - 1]
            ELSE [tok |-> new_token("ILLEGAL", ch), position |-> pos]

\* variant: the position after the match is returned as it is
next_token_NoStep(in, pos) ==
    LET sp == skip_whitespace(in, pos)
        ch == read_char(in, sp)
        r  == IF ch = None
              THEN [tok |-> new_token("EOF", " "), position |-> sp]
              ELSE MatchChar(in, sp, ch)
    IN [tok |-> r.tok, position |-> r.position]

\* (sp, ch and r are bound once, as values)
next_token(in, pos) ==
    CHOOSE res \in
        {[tok |-> r.tok, position |-> r.position + 1] :
            r \in UNION {{IF ch = None
                          THEN [tok |-> new_token("EOF", " "), position |-> sp]
                          ELSE MatchChar(in, sp, ch) :
                                ch \in {read_char(in, sp)}} :
                                    sp \in {skip_whitespace(in, pos)}}} : TRUE

(***************************************************************************)
(* The lexer handle the parser owns.  parser.rs calls `self.l.next_token()`*)
(* on a lexer that keeps its own cursor; lexer.rs holds the form that is   *)
(* given the position.  The handle threads the position the way the        *)
(* driver loop of repl.rs does: the returned position becomes the cursor   *)
(* unless the token is EOF, and the cursor then stays where it is.         *)
(***************************************************************************)
LexerNew == [position |-> 0]

LexerNextToken(in, l) ==
    LET r == next_token(in, l.position)
    IN [tok |-> r.tok,
        l   |-> IF r.tok.token_type = "EOF" THEN l
                ELSE [position |-> r.position]]

(***************************************************************************)
(* ast.rs                                                                  *)
(***************************************************************************)
NoneOpt == [kind |-> "None"]

Some(x) == x

Identifier(token, value) ==
    [kind |-> "Identifier", token |-> token, value |-> value]

IntegerLiteral(token, value) ==
    [kind |-> "IntegerLiteral", token |-> token, value |-> value]

LetStatement(token, name) ==
    [kind |-> "LetStatement", token |-> token, name |-> name,
     value |-> NoneOpt]

ReturnStatement(token) ==
    [kind |-> "ReturnStatement", token |-> token, return_value |-> NoneOpt]

ExpressionStatement(token, expression) ==
    [kind |-> "ExpressionStatement", token |-> token,
     expression |-> expression]

token_literal(node) == node.token.literal

Identifier_string(id) == id.value

Expression_string(e) == Identifier_string(e)

\* opt.clone().map_or("".to_string(), |v| v.string())
map_or_string(opt) == IF opt = NoneOpt THEN <<>> ELSE Expression_string(opt)

\* variant: the closing ';' is left out
LetStatement_string_NoSemicolon(s) ==
    token_literal(s) \o <<" ">> \o Identifier_string(s.name)
        \o <<" ", "=", " ">> \o map_or_string(s.value)

\* format!("{} {} = {};", ...)
LetStatement_string(s) ==
    token_literal(s) \o <<" ">> \o Identifier_string(s.name)
        \o <<" ", "=", " ">> \o map_or_string(s.value) \o <<";">>

\* format!("{} {};", ...)
ReturnStatement_string(s) ==
    token_literal(s) \o <<" ">> \o map_or_string(s.return_value) \o <<";">>

ExpressionStatement_string(s) == map_or_string(s.expression)

Statement_string(s) ==
    CASE s.kind = "LetStatement" -> LetStatement_string(s)
      [] s.kind = "ReturnStatement" -> ReturnStatement_string(s)
      [] s.kind = "ExpressionStatement" -> ExpressionStatement_string(s)

\* self.statements.iter().map(|s| s.string()).collect()
RECURSIVE Program_string(_)
Program_string(statements) ==
    IF statements = <<>> THEN <<>>
    ELSE Statement_string(Head(statements)) \o Program_string(Tail(statements))

(***************************************************************************)
(* str::parse::<i64> on a run of ASCII digits: the decimal value, or an    *)
(* error when the value exceeds i64::MAX.                                  *)
(***************************************************************************)
I64MaxDigits ==
    <<"9","2","2","3","3","7","2","0","3","6","8","5","4","7","7","5","8","0","7">>

DigitValue(d) ==
    CASE d = "0" -> 0 [] d = "1" -> 1 [] d = "2" -> 2 [] d = "3" -> 3
      [] d = "4" -> 4 [] d = "5" -> 5 [] d = "6" -> 6 [] d = "7" -> 7
      [] d = "8" -> 8 [] d = "9" -> 9

\* the digits after the leading zeros (one digit is always kept)
StripZeros(ds) ==
    LET nz == {i \in 1..Len(ds) : ds[i] # "0" \/ i = Len(ds)}
        first == CHOOSE i \in nz : \A j \in nz : i <= j
    IN SubSeq(ds, first, Len(ds))

\* a <= b for two digit runs of the same length
DigitsLeq(a, b) ==
    \/ a = b
    \/ \E i \in 1..Len(a) :
          /\ DigitValue(a[i]) < DigitValue(b[i])
          /\ \A j \in 1..(i - 1) : a[j] = b[j]

FitsI64(ds) ==
    LET s == StripZeros(ds)
    IN Len(s) < Len(I64MaxDigits)
       \/ (Len(s) = Len(I64MaxDigits) /\ DigitsLeq(s, I64MaxDigits))

RECURSIVE Accumulate(_, _)
Accumulate(ds, n) ==
    IF n = 0 THEN 0
    ELSE Accumulate(ds, n - 1) * 10 + DigitValue(ds[n])

parse_i64(ds) ==
    IF ds = <<>> \/ ~FitsI64(ds) THEN [ok |-> FALSE, value |-> 0]
    ELSE [ok |-> TRUE, value |-> Accumulate(ds, Len(ds))]

(***************************************************************************)
(* parser.rs                                                               *)
(***************************************************************************)
Lowest == 0

peek_error(ps, t) ==
    <<"expected next token to be ", t, ", got ", ps.peek_token.token_type,
      " instead">>

\* variant: the new token is stored as the current token as well
Parser_next_token_NoShift(ps) ==
    LET r == LexerNextToken(input, ps.l)
    IN [ps EXCEPT !.cur_token = r.tok,
                  !.peek_token = r.tok,
                  !.l = r.l]

Parser_next_token(ps) ==
    LET r == LexerNextToken(input, ps.l)
    IN [ps EXCEPT !.cur_token = ps.peek_token,
                  !.peek_token = r.tok,
                  !.l = r.l]

cur_token_is(ps, t) == ps.cur_token.token_type = t

peek_token_is(ps, t) == ps.peek_token.token_type = t

\* the String peek_error returns is dropped by the statement at line 177
expect_peek(ps, t) ==
    IF peek_token_is(ps, t)
    THEN [ok |-> TRUE, ps |-> Parser_next_token(ps)]
    ELSE [ok |-> FALSE, ps |-> ps]

parse_identifier(ps) ==
    [e |-> Some(Identifier(ps.cur_token, ps.cur_token.literal)), ps |-> ps]

parese_integer_literal(ps) ==
    LET r == parse_i64(ps.cur_token.literal)
    IN IF r.ok
       THEN [e |-> Some(IntegerLiteral(ps.cur_token, r.value)), ps |-> ps]
       ELSE [e |-> NoneOpt,
             ps |-> [ps EXCEPT !.errors =
                        Append(@, <<"could not parse ", ps.cur_token.literal,
                                    " as integer">>)]]

parse_expression(ps, precedence) ==
    CASE ps.cur_token.token_type = "IDENT" -> parse_identifier(ps)
      [] ps.cur_token.token_type = "INT" -> parese_integer_literal(ps)
      [] OTHER -> [e |-> NoneOpt, ps |-> ps]

\* Parser::new, with the two priming next_token calls; Token::new() is
\* the placeholder both calls overwrite
TokenNew == Token("", <<>>)

ParserNew ==
    LET p0 == [l |-> LexerNew, errors |-> <<>>,
               cur_token |-> TokenNew, peek_token |-> TokenNew]
    IN Parser_next_token(Parser_next_token(p0))

(***************************************************************************)
(* Source texts                                                            *)
(***************************************************************************)
Alphabet == {"l", "e", "t", "=", "!", " ", "5", "@"}

RECURSIVE Texts(_)
Texts(n) ==
    IF n = 0 THEN {<<>>}
    ELSE Texts(n - 1) \cup
         {Append(s, c) : s \in {x \in Texts(n - 1) : Len(x) = n - 1},
                         c \in Alphabet}

SampleTexts ==
    { <<"=","=","=">>, <<"!","=","=">>, <<"=","!","=">>, <<"=",";">>,
      <<"l","e","t","x">>, <<"L","e","t">>, <<"l","e","t","_","x","1">>,
      <<"r","e","t","u","r","n">>, <<"r","e","t","u","r","n","s">>,
      <<"f","n","(","x",")">>, <<"i","f","e","l","s","e">>,
      <<"t","r","u","e","\t","f","a","l","s","e","\n">>,
      <<"e","l","s","e","{","}">>, <<"1","0","!","=","9",";">>,
      <<"x","+","y","-","z","*","/","<",">",",">>,
      <<"@","#","$">>, <<"\r","\n","\f"," ">>, <<"~">>, <<"a","?","b">> }

LexerInputs == Texts(MaxLen) \cup SampleTexts

\* words of program texts
w_let == <<"l","e","t">>
w_return == <<"r","e","t","u","r","n">>
w_x == <<"x">>
w_foobar == <<"f","o","o","b","a","r">>
w_assign == <<"=">>
w_semi == <<";">>
w_5 == <<"5">>
w_010 == <<"0","1","0">>
w_big == <<"9","2","2","3","3","7","2","0","3","6","8","5","4","7","7","5","8","0","8">>

Words == <<w_let, w_return, w_x, w_assign, w_semi, w_5>>

\* statements, each a sequence of words
Templates ==
    << <<w_let, w_x, w_assign, w_5, w_semi>>,
       <<w_let, w_foobar, w_assign, w_x, w_assign, w_let, w_semi>>,
       <<w_return, w_5, w_semi>>,
       <<w_return, w_let, w_x, w_return, w_semi>>,
       <<w_foobar, w_semi>>,
       <<w_010, w_semi>>,
       <<w_big, w_semi>>,
       <<w_let, w_assign, w_5, w_semi>>,
       <<w_let, w_x, w_assign, w_5>> >>

\* the words separated by one space, except that ';' follows its word
\* directly
RECURSIVE Join(_)
Join(ws) ==
    IF ws = <<>> THEN <<>>
    ELSE IF Len(ws) = 1 THEN ws[1]
    ELSE IF ws[2] = w_semi THEN ws[1] \o Join(Tail(ws))
    ELSE ws[1] \o <<" ">> \o Join(Tail(ws))

RECURSIVE Concat(_)
Concat(ss) == IF ss = <<>> THEN <<>> ELSE ss[1] \o Concat(Tail(ss))

Choices(n, m) == UNION {[1..k -> 1..m] : k \in 0..n}

ProgramTexts ==
    {Join(Concat([i \in DOMAIN c |-> Templates[c[i]]])) :
        c \in Choices(MaxStmts, Len(Templates))}

WordTexts ==
    {Join([i \in DOMAIN c |-> Words[c[i]]]) : c \in Choices(MaxWords, Len(Words))}

ParserInputs == ProgramTexts \cup WordTexts

(***************************************************************************)
(* parse_program, one step at a time                                       *)
(***************************************************************************)
NoToken == Token("NONE", <<>>)

LexIdle ==
    /\ position = 0
    /\ tok = NoToken
    /\ read_position = 0
    /\ at = 0
    /\ calls = 0

Init ==
    /\ input \in ParserInputs
    /\ LexIdle
    /\ p = ParserNew
    /\ program = <<>>
    /\ stmt = NoneOpt
    /\ pc = "program"
    /\ out = <<>>

\* line 62: the loop test of parse_program, and the match of parse_statement
ParseProgramTest ==
    /\ pc = "program"
    /\ pc' = IF cur_token_is(p, "EOF") THEN "done"
             ELSE IF cur_token_is(p, "LET") THEN "let_ident"
             ELSE IF cur_token_is(p, "RETURN") THEN "return"
             ELSE "expression"
    /\ stmt' = NoneOpt
    /\ UNCHANGED <<input, out, lexvars, p, program>>

\* variant: the token after `let` is taken whatever its kind
ParseLetIdent_AnyPeek ==
    /\ pc = "let_ident"
    /\ p' = Parser_next_token(p)
    /\ stmt' = LetStatement(p.cur_token, Identifier(TokenNew, <<>>))
    /\ pc' = "let_assign"
    /\ UNCHANGED <<input, out, lexvars, program>>

\* lines 81-86: the LetStatement takes the current token; an IDENT is expected
ParseLetIdent ==
    /\ pc = "let_ident"
    /\ \E r \in {expect_peek(p, "IDENT")} :
          /\ p' = r.ps
          /\ IF r.ok
             THEN /\ stmt' = LetStatement(p.cur_token,
                                          Identifier(TokenNew, <<>>))
                  /\ pc' = "let_assign"
             ELSE /\ stmt' = NoneOpt
                  /\ pc' = "advance"
    /\ UNCHANGED <<input, out, lexvars, program>>

\* variant: the name is taken from the statement's own token
ParseLetAssign_NameFromLet ==
    /\ pc = "let_assign"
    /\ LET named == [stmt EXCEPT !.name =
                        Identifier(stmt.token, stmt.token.literal)]
       IN \E r \in {expect_peek(p, "ASSIGN")} :
          /\ p' = r.ps
          /\ IF r.ok
             THEN /\ stmt' = named
                  /\ pc' = "let_skip"
             ELSE /\ stmt' = NoneOpt
                  /\ pc' = "advance"
    /\ UNCHANGED <<input, out, lexvars, program>>

\* lines 88-95: the name is the current token; an ASSIGN is expected
ParseLetAssign ==
    /\ pc = "let_assign"
    /\ LET named == [stmt EXCEPT !.name =
                        Identifier(p.cur_token, p.cur_token.literal)]
       IN \E r \in {expect_peek(p, "ASSIGN")} :
          /\ p' = r.ps
          /\ IF r.ok
             THEN /\ stmt' = named
                  /\ pc' = "let_skip"
             ELSE /\ stmt' = NoneOpt
                  /\ pc' = "advance"
    /\ UNCHANGED <<input, out, lexvars, program>>

\* lines 97-101: one turn of the loop that looks for the ';'
ParseLetSkip ==
    /\ pc = "let_skip"
    /\ IF cur_token_is(p, "SEMICOLON")
       THEN /\ pc' = "advance"
            /\ UNCHANGED p
       ELSE /\ p' = Parser_next_token(p)
            /\ UNCHANGED pc
    /\ UNCHANGED <<input, out, lexvars, program, stmt>>

\* lines 105-107
ParseReturn ==
    /\ pc = "return"
    /\ stmt' = ReturnStatement(p.cur_token)
    /\ p' = Parser_next_token(p)
    /\ pc' = "return_skip"
    /\ UNCHANGED <<input, out, lexvars, program>>

\* variant: the statement ends right after the token that follows `return`
ParseReturnSkip_NoLoop ==
    /\ pc = "return_skip"
    /\ pc' = "advance"
    /\ UNCHANGED <<input, out, lexvars, p, program, stmt>>

\* lines 109-113
ParseReturnSkip ==
    /\ pc = "return_skip"
    /\ IF cur_token_is(p, "SEMICOLON")
       THEN /\ pc' = "advance"
            /\ UNCHANGED p
       ELSE /\ p' = Parser_next_token(p)
            /\ UNCHANGED pc
    /\ UNCHANGED <<input, out, lexvars, program, stmt>>

\* variant: a ';' after the expression is left in the window
ParseExpressionStatement_KeepSemicolon ==
    /\ pc = "expression"
    /\ \E r \in {parse_expression(p, Lowest)} :
          /\ stmt' = Some(ExpressionStatement(p.cur_token, r.e))
          /\ p' = r.ps
    /\ pc' = "advance"
    /\ UNCHANGED <<input, out, lexvars, program>>

\* lines 116-127
ParseExpressionStatement ==
    /\ pc = "expression"
    /\ \E r \in {parse_expression(p, Lowest)} :
          /\ stmt' = Some(ExpressionStatement(p.cur_token, r.e))
          /\ p' = IF peek_token_is(r.ps, "SEMICOLON")
                  THEN Parser_next_token(r.ps)
                  ELSE r.ps
    /\ pc' = "advance"
    /\ UNCHANGED <<input, out, lexvars, program>>

\* lines 64-67: the statement, if any, is pushed and the window moves on
ParseProgramAdvance ==
    /\ pc = "advance"
    /\ program' = IF stmt # NoneOpt THEN Append(program, stmt) ELSE program
    /\ p' = Parser_next_token(p)
    /\ pc' = "program"
    /\ UNCHANGED <<input, out, lexvars, stmt>>

Next ==
    \/ ParseProgramTest
    \/ ParseLetIdent
    \/ ParseLetAssign
    \/ ParseLetSkip
    \/ ParseReturn
    \/ ParseReturnSkip
    \/ ParseExpressionStatement
    \/ ParseProgramAdvance

Spec == Init /\ [][Next]_vars

\* parse_program runs on without interruption
FairSpec == Spec /\ WF_vars(Next)

(***************************************************************************)
(* The tokenizer driven on its own, as the loops of repl.rs and of the     *)
(* lexer test drive it: a call is given a position and returns a token     *)
(* and a position.                                                         *)
(***************************************************************************)
LexInit ==
    /\ input \in LexerInputs
    /\ LexIdle
    /\ p = ParserNew
    /\ program = <<>>
    /\ stmt = NoneOpt
    /\ pc = "program"
    /\ out = <<>>

\* a call whose returned position is given to the next call
LexFeed ==
    /\ calls < Len(input) + MaxExtraCalls
    /\ LET r == next_token(input, position)
       IN /\ tok' = r.tok
          /\ read_position' = r.position
          /\ at' = position
          /\ position' = r.position
    /\ calls' = calls + 1
    /\ UNCHANGED <<input, out, parservars>>

\* a call whose returned position is dropped: the next call is given the
\* same position again
LexAgain ==
    /\ LET r == next_token(input, position)
       IN /\ tok' = r.tok
          /\ read_position' = r.position
          /\ at' = position
    /\ UNCHANGED <<input, out, position, calls, parservars>>

LexNext == LexFeed \/ LexAgain

LexSpec == LexInit /\ [][LexNext]_vars

(***************************************************************************)
(* Properties of the tokenizer (LexSpec)                                   *)
(***************************************************************************)
Called == tok # NoToken

\* the index of the first character at or after `at` that is not
\* whitespace, or the length of the text when there is none
TokenStart ==
    LET stops == {i \in at..Len(input) :
                    i = Len(input) \/ input[i + 1] \notin Whitespace}
    IN IF at >= Len(input) THEN at
       ELSE CHOOSE i \in stops : \A j \in stops : i <= j

CharAt(i) == input[i + 1]

\* the end of the maximal run of letters and underscores that starts at s
RunEnd(s) ==
    LET ends == {j \in (s + 1)..Len(input) :
                    j = Len(input) \/ ~is_letter(input[j + 1])}
    IN CHOOSE j \in ends : \A k \in ends : j <= k

KeywordKind(text) ==
    CASE text = <<"f","n">> -> "FUNCTION"
      [] text = <<"l","e","t">> -> "LET"
      [] text = <<"t","r","u","e">> -> "TRUE"
      [] text = <<"f","a","l","s","e">> -> "FALSE"
      [] text = <<"i","f">> -> "IF"
      [] text = <<"e","l","s","e">> -> "ELSE"
      [] text = <<"r","e","t","u","r","n">> -> "RETURN"
      [] OTHER -> "IDENT"

\* C6: a '=' or '!' directly followed by '=' is returned as one EQ "==" or
\* NOTEQ "!=" token and the returned position is two past its start; a '='
\* or '!' followed by anything else or by the end of the text is returned
\* as ASSIGN "=" or BANG "!" and the returned position is one past its
\* start, so that "===" gives EQ and then ASSIGN.
C6_Lookahead ==
    /\ (Called /\ TokenStart < Len(input)
               /\ CharAt(TokenStart) \in {"=", "!"}) =>
         LET s == TokenStart
             c == CharAt(s)
         IN IF s + 1 < Len(input) /\ CharAt(s + 1) = "="
            THEN /\ tok = Token(IF c = "=" THEN "EQ" ELSE "NOTEQ", <<c, "=">>)
                 /\ read_position = s + 2
            ELSE /\ tok = Token(IF c = "=" THEN "ASSIGN" ELSE "BANG", <<c>>)
                 /\ read_position = s + 1
    /\ (input = <<"=","=","=">> /\ Called /\ at = 0) =>
         tok = Token("EQ", <<"=","=">>) /\ read_position = 2
    /\ (input = <<"=","=","=">> /\ Called /\ at = 2) =>
         tok = Token("ASSIGN", <<"=">>)

C6_Witness ==
    /\ input = <<"=","=","=">>
    /\ calls = 2
    /\ at = 2
    /\ tok = Token("ASSIGN", <<"=">>)
    /\ read_position = 3

\* C7: at a letter or underscore the token's literal is the whole maximal
\* run of letters and underscores, the returned position is the end of the
\* run, and the kind is a keyword kind only when the whole run is exactly
\* one of fn, let, true, false, if, else, return, and IDENT otherwise:
\* "let" is one LET token and "letx" one IDENT token.
C7_MaximalMunch ==
    /\ (Called /\ TokenStart < Len(input) /\ is_letter(CharAt(TokenStart))) =>
         LET s == TokenStart
             e == RunEnd(s)
             run == [i \in 1..(e - s) |-> input[s + i]]
         IN /\ tok.literal = run
            /\ tok.token_type = KeywordKind(run)
            /\ read_position = e
    /\ (input = <<"l","e","t">> /\ Called /\ at = 0) =>
         tok = Token("LET", <<"l","e","t">>)
    /\ (input = <<"l","e","t","x">> /\ Called /\ at = 0) =>
         tok = Token("IDENT", <<"l","e","t","x">>) /\ read_position = 4

C7_Witness ==
    /\ input = <<"l","e","t","x">>
    /\ at = 0
    /\ tok = Token("IDENT", <<"l","e","t","x">>)
    /\ read_position = 4

NothingRemains ==
    \A i \in at..(Len(input) - 1) : input[i + 1] \in Whitespace

\* C8 as stated: a call at a position where only whitespace or nothing
\* remains returns the EOF token with empty literal, and once a call has
\* returned EOF every later call returns that token again.
C8_EofEmptyLiteral ==
    /\ [](Called /\ NothingRemains => tok = Token("EOF", <<>>))
    /\ [][(Called /\ tok.token_type = "EOF") => tok' = Token("EOF", <<>>)]_vars

\* C8 as amended: a call at a position where only whitespace or nothing
\* remains returns the EOF token whose literal is one space, and once a
\* call has returned EOF every later call, at the same position or at the
\* returned one, returns that token again.
C8_EofStable ==
    /\ [](Called /\ NothingRemains => tok = Token("EOF", <<" ">>))
    /\ [][(Called /\ tok.token_type = "EOF") => tok' = Token("EOF", <<" ">>)]_vars

C8_Witness ==
    /\ Len(input) > 1
    /\ input[Len(input)] \in Whitespace
    /\ at > Len(input)
    /\ calls >= 3
    /\ tok = Token("EOF", <<" ">>)

Recognised ==
    Whitespace \cup DOMAIN SingleCharKinds \cup {"=", "!", "_"}
        \cup LowerCase \cup UpperCase \cup Digits

\* C9: a call that does not return EOF returns a position greater than
\* the one it was given, so that feeding positions forward from 0 returns
\* EOF within len(input)+1 calls; a character that is none of whitespace,
\* punctuation, letter, underscore, digit gives one ILLEGAL token of that
\* character and the position after it ("@" gives ILLEGAL "@", then EOF).
C9_Progress ==
    /\ (Called /\ tok.token_type # "EOF") =>
         /\ read_position > at
         /\ read_position <= Len(input)
    /\ calls >= Len(input) + 1 => tok.token_type = "EOF"
    /\ (Called /\ TokenStart < Len(input)
               /\ CharAt(TokenStart) \notin Recognised) =>
         /\ tok = Token("ILLEGAL", <<CharAt(TokenStart)>>)
         /\ read_position = TokenStart + 1
    /\ (input = <<"@">> /\ calls = 2 /\ at = 1) => tok.token_type = "EOF"

C9_Witness ==
    /\ input = <<"@","@","@","@">>
    /\ calls = Len(input) + 1
    /\ at = Len(input)
    /\ tok.token_type = "EOF"

(***************************************************************************)
(* Properties of the parser (Spec, FairSpec)                               *)
(***************************************************************************)
\* the tokens of a text before its EOF, by feeding positions forward from 0
RECURSIVE TokensFrom(_, _)
TokensFrom(in, pos) ==
    CHOOSE ts \in {IF r.tok.token_type = "EOF" THEN <<>>
                   ELSE <<r.tok>> \o TokensFrom(in, r.position) :
                        r \in {next_token(in, pos)}} : TRUE

InputTokens == TokensFrom(input, 0)

\* the index of the first ';' of ts at or after index from, 0 when none
FirstSemi(ts, from) ==
    LET semis == {k \in from..Len(ts) : ts[k].token_type = "SEMICOLON"}
    IN IF semis = {} THEN 0 ELSE CHOOSE k \in semis : \A j \in semis : k <= j

Rest(ts, k) == SubSeq(ts, k + 1, Len(ts))

\* ts is a sequence of statements `let <ident> = <tokens> ;`
RECURSIVE IsLetSeq(_)
IsLetSeq(ts) ==
    \/ ts = <<>>
    \/ /\ Len(ts) >= 4
       /\ ts[1].token_type = "LET"
       /\ ts[2].token_type = "IDENT"
       /\ ts[3].token_type = "ASSIGN"
       /\ FirstSemi(ts, 4) > 0
       /\ IsLetSeq(Rest(ts, FirstSemi(ts, 4)))

RECURSIVE LetNames(_)
LetNames(ts) ==
    IF ts = <<>> THEN <<>>
    ELSE <<ts[2].literal>> \o LetNames(Rest(ts, FirstSemi(ts, 4)))

\* ts is a sequence of statements `return <tokens> ;`
RECURSIVE IsReturnSeq(_)
IsReturnSeq(ts) ==
    \/ ts = <<>>
    \/ /\ Len(ts) >= 2
       /\ ts[1].token_type = "RETURN"
       /\ FirstSemi(ts, 2) > 0
       /\ IsReturnSeq(Rest(ts, FirstSemi(ts, 2)))

RECURSIVE CountReturns(_)
CountReturns(ts) ==
    IF ts = <<>> THEN 0 ELSE 1 + CountReturns(Rest(ts, FirstSemi(ts, 2)))

SkipLoopAtEof ==
    pc \in {"let_skip", "return_skip"} /\ cur_token_is(p, "EOF")

\* C1: parse_program terminates on every input, also when a `let` or a
\* `return` statement has no ';' before the end of the input.
C1_Terminates == <>(pc = "done")

ExpectedAt(where) == IF where = "let_ident" THEN "IDENT" ELSE "ASSIGN"

ExpectPeekFails ==
    /\ pc \in {"let_ident", "let_assign"}
    /\ p.peek_token.token_type # ExpectedAt(pc)

Diagnostic(expected, got) ==
    <<"expected next token to be ", expected, ", got ", got, " instead">>

LetAssign5Semi == Join(<<w_let, w_assign, w_5, w_semi>>)

\* C2: when expect_peek finds another kind of token than the one it is
\* given, it appends exactly one diagnostic "expected next token to be
\* <kind>, got <peek kind> instead" and leaves the current and the peek
\* token as they are, so that parsing `let = 5;` ends with the one
\* diagnostic "expected next token to be IDENT, got ASSIGN instead".
C2_ExpectPeekRecords ==
    /\ [][ExpectPeekFails =>
            /\ p'.errors = Append(p.errors,
                  Diagnostic(ExpectedAt(pc), p.peek_token.token_type))
            /\ p'.cur_token = p.cur_token
            /\ p'.peek_token = p.peek_token
            /\ stmt' = NoneOpt]_vars
    /\ [](pc = "done" /\ input = LetAssign5Semi =>
            p.errors = <<Diagnostic("IDENT", "ASSIGN")>>)

\* the text starts with a `let` statement that lacks its identifier or
\* its '=', is closed by a ';', and is followed by well-formed `let`
\* statements only
FailedLetThenLets(ts) ==
    /\ Len(ts) >= 3
    /\ ts[1].token_type = "LET"
    /\ (ts[2].token_type # "IDENT" \/ ts[3].token_type # "ASSIGN")
    /\ FirstSemi(ts, 1) > 0
    /\ IsLetSeq(Rest(ts, FirstSemi(ts, 1)))

\* C3: when a `let` statement is abandoned for a missing token, no
\* statement at all is built from its tokens up to and including its ';'
\* (`let = 5;` gives a Program without statements) and the well-formed
\* statements after it are parsed as if it were absent.
C3_FailedLetSkipped ==
    (pc = "done" /\ FailedLetThenLets(InputTokens)) =>
        LET names == LetNames(Rest(InputTokens, FirstSemi(InputTokens, 1)))
        IN /\ Len(program) = Len(names)
           /\ \A i \in 1..Len(names) :
                /\ program[i].kind = "LetStatement"
                /\ program[i].name.value = names[i]

\* C4: for a text of n statements `let <ident> = <tokens> ;` the parse
\* runs to its end and the Program has exactly n statements, each a Let
\* statement with token literal "let" whose name's value and name's token
\* literal are the n identifiers in order, and there are no diagnostics.
C4_LetStatements ==
    IsLetSeq(InputTokens) =>
        /\ ~SkipLoopAtEof
        /\ pc = "done" =>
            LET names == LetNames(InputTokens)
            IN /\ Len(program) = Len(names)
               /\ \A i \in 1..Len(names) :
                    /\ program[i].kind = "LetStatement"
                    /\ program[i].token.literal = <<"l","e","t">>
                    /\ program[i].name.value = names[i]
                    /\ program[i].name.token.literal = names[i]
               /\ p.errors = <<>>

C4_Witness ==
    /\ pc = "done"
    /\ IsLetSeq(InputTokens)
    /\ Len(program) >= 2
    /\ program[1].name.value = <<"f","o","o","b","a","r">>
    /\ program[2].name.value = <<"x">>
    /\ Len(InputTokens) > 4 * Len(program)

\* C5: for a text of n statements `return <tokens> ;` the parse runs to
\* its end and the Program has exactly n statements, each a Return
\* statement with token literal "return", and there are no diagnostics:
\* the tokens up to and including each ';' give no statement of their own.
C5_ReturnStatements ==
    IsReturnSeq(InputTokens) =>
        /\ ~SkipLoopAtEof
        /\ pc = "done" =>
            /\ Len(program) = CountReturns(InputTokens)
            /\ \A i \in 1..Len(program) :
                 /\ program[i].kind = "ReturnStatement"
                 /\ program[i].token.literal = <<"r","e","t","u","r","n">>
            /\ p.errors = <<>>

C5_Witness ==
    /\ pc = "done"
    /\ IsReturnSeq(InputTokens)
    /\ Len(program) >= 2
    /\ Len(InputTokens) > 3 * Len(program)

\* the text is one IDENT or INT token, alone or followed by one ';'
SingleTokenInput(ts) ==
    /\ Len(ts) \in {1, 2}
    /\ ts[1].token_type \in {"IDENT", "INT"}
    /\ Len(ts) = 2 => ts[2].token_type = "SEMICOLON"

RECURSIVE Pow10(_)
Pow10(n) == IF n = 0 THEN 1 ELSE 10 * Pow10(n - 1)

RECURSIVE WeightedSum(_, _)
WeightedSum(ds, i) ==
    IF i > Len(ds) THEN 0
    ELSE DigitValue(ds[i]) * Pow10(Len(ds) - i) + WeightedSum(ds, i + 1)

DecimalValue(ds) == WeightedSum(ds, 1)

OneExpressionStatement(t) ==
    /\ Len(program) = 1
    /\ program[1].kind = "ExpressionStatement"
    /\ program[1].token = t
    /\ IF t.token_type = "IDENT"
       THEN /\ program[1].expression.kind = "Identifier"
            /\ program[1].expression.value = t.literal
       ELSE /\ program[1].expression.kind = "IntegerLiteral"
            /\ program[1].expression.value = DecimalValue(t.literal)

\* C10 as stated: for a text of one IDENT or INT token, with or without
\* one ';' after it, the Program has exactly one statement, an Expression
\* statement of that token whose expression is an Identifier of the
\* token's text or an IntegerLiteral of the digits' value.
C10_SingleToken ==
    (pc = "done" /\ SingleTokenInput(InputTokens)) =>
        OneExpressionStatement(InputTokens[1])

\* C10 as amended: the same, for an IDENT token or an INT token whose
\* digits fit a signed 64-bit integer.
C10_SingleTokenFits ==
    (/\ pc = "done"
     /\ SingleTokenInput(InputTokens)
     /\ InputTokens[1].token_type = "INT" => FitsI64(InputTokens[1].literal)) =>
        OneExpressionStatement(InputTokens[1])

C10_Witness ==
    /\ pc = "done"
    /\ input = <<"0","1","0",";">>
    /\ Len(program) = 1
    /\ program[1].expression.kind = "IntegerLiteral"
    /\ program[1].expression.value = 10

IntegerDiagnostic(text) == <<"could not parse ", text, " as integer">>

OverflowingInt ==
    /\ pc = "expression"
    /\ p.cur_token.token_type = "INT"
    /\ ~FitsI64(p.cur_token.literal)

\* C11: when the digits of an INT token do not fit a signed 64-bit
\* integer, parsing it appends exactly one diagnostic "could not parse
\* <text> as integer" and the statement is abandoned: no statement is
\* handed to parse_program for it, so none is appended to the Program.
C11_OverflowAbandons ==
    [][OverflowingInt =>
        /\ p'.errors = Append(p.errors, IntegerDiagnostic(p.cur_token.literal))
        /\ stmt' = NoneOpt]_vars

\* C13: every Let statement of the Program has a name built from an IDENT
\* token: the name's token has kind IDENT, the name's value is that
\* token's literal, and the token is the one right after the statement's
\* `let` in the text; this holds whatever follows the '=', and the
\* statement's value is absent.
C13_LetNameIsIdent ==
    \A i \in 1..Len(program) :
        program[i].kind = "LetStatement" =>
            /\ program[i].name.token.token_type = "IDENT"
            /\ program[i].name.value = program[i].name.token.literal
            /\ program[i].value = NoneOpt
            /\ \E ts \in {InputTokens} : \E j \in 1..(Len(ts) - 1) :
                  /\ ts[j].token_type = "LET"
                  /\ ts[j] = program[i].token
                  /\ ts[j + 1] = program[i].name.token

C13_Witness ==
    /\ pc = "done"
    /\ Len(program) = 2
    /\ program[1].kind = "LetStatement"
    /\ program[1].name.value = <<"f","o","o","b","a","r">>
    /\ program[2].kind = "LetStatement"
    /\ program[2].name.token = Token("IDENT", <<"x">>)
    /\ Len(InputTokens) = 12

\* the tokens of a text before its EOF, each with the position returned
\* with it
RECURSIVE ScanFrom(_, _)
ScanFrom(in, pos) ==
    CHOOSE sc \in {IF r.tok.token_type = "EOF" THEN <<>>
                   ELSE <<r>> \o ScanFrom(in, r.position) :
                        r \in {next_token(in, pos)}} : TRUE

InputScan == ScanFrom(input, 0)

\* the k-th token of the lexer's stream: the tokens of the text, then EOF
\* for ever
Stream(sc, k) == IF k <= Len(sc) THEN sc[k].tok ELSE Token("EOF", <<" ">>)

\* how many tokens of the text a lexer whose cursor is at pos has handed out
HandedOut(sc, pos) == Cardinality({i \in 1..Len(sc) : sc[i].position <= pos})

\* the indices k at which the window of ps stands: current is the k-th
\* token of the stream, peek the (k+1)-th, and the lexer has handed out
\* just that
WindowOf(sc, ps) ==
    {k \in 1..(Len(sc) + 1) :
        /\ ps.cur_token = Stream(sc, k)
        /\ ps.peek_token = Stream(sc, k + 1)
        /\ HandedOut(sc, ps.l.position) =
              (IF k + 1 <= Len(sc) THEN k + 1 ELSE Len(sc))}

IndexOf(sc, ps) ==
    IF WindowOf(sc, ps) = {} THEN 0 ELSE CHOOSE k \in WindowOf(sc, ps) : TRUE

WindowIndex == IndexOf(InputScan, p)

\* the window moves from index a to index b by one token, or stays at EOF
ShiftedByOne(sc, a, b) ==
    /\ b = (IF a <= Len(sc) THEN a + 1 ELSE a)
    /\ p'.cur_token = p.peek_token

\* C14: after Parser::new the current token is the 1st token of the
\* stream and peek the 2nd; in every state peek is the token that follows
\* the current one in the stream; a step leaves the window where it is or
\* moves it by exactly one token, and the next_token call of parse_program
\* always moves it, so that the tokens become current one by one in the
\* order of the text until EOF is current.
C14_TokenWindow ==
    /\ p.cur_token = Stream(InputScan, 1)
    /\ p.peek_token = Stream(InputScan, 2)
    /\ [](\E sc \in {InputScan} : Cardinality(WindowOf(sc, p)) = 1)
    /\ [][\E sc \in {InputScan} :
            \E a \in {IndexOf(sc, p)}, b \in {IndexOf(sc, p')} :
                /\ b = a \/ ShiftedByOne(sc, a, b)
                /\ pc = "advance" => ShiftedByOne(sc, a, b)]_vars

C14_Witness ==
    /\ pc = "done"
    /\ Len(InputScan) >= 10
    /\ WindowIndex = Len(InputScan) + 1
    /\ p.errors # <<>>

(***************************************************************************)
(* Programs built by hand, as in the test of ast.rs, and their string()    *)
(***************************************************************************)
w_myVar == <<"m","y","V","a","r">>
w_anotherVar == <<"a","n","o","t","h","e","r","V","a","r">>

AstIdentifiers ==
    { Identifier(Token("IDENT", w_myVar), w_myVar),
      Identifier(Token("IDENT", w_anotherVar), w_anotherVar),
      Identifier(Token("IDENT", w_x), w_foobar) }

AstValues == AstIdentifiers \cup {NoneOpt}

AstStatements ==
    {[LetStatement(Token("LET", w_let), n) EXCEPT !.value = v] :
        n \in AstIdentifiers, v \in AstValues}
    \cup {[ReturnStatement(Token("RETURN", w_return)) EXCEPT !.return_value = v] :
        v \in AstValues}
    \cup {ExpressionStatement(e.token, e) : e \in AstIdentifiers}

AstPrograms == UNION {[1..n -> AstStatements] : n \in 0..MaxNodes}

AstInit ==
    /\ input = <<>>
    /\ LexIdle
    /\ p = ParserNew
    /\ program \in AstPrograms
    /\ stmt = NoneOpt
    /\ pc = "built"
    /\ out = <<>>

\* Statement::string on one statement of the Program
StatementString ==
    /\ pc = "built"
    /\ \E i \in 1..Len(program) :
          /\ stmt' = program[i]
          /\ out' = Statement_string(program[i])
    /\ pc' = "statement_string"
    /\ UNCHANGED <<input, lexvars, p, program>>

\* Program::string
ProgramString ==
    /\ pc = "built"
    /\ out' = Program_string(program)
    /\ pc' = "program_string"
    /\ UNCHANGED <<input, lexvars, p, program, stmt>>

AstNext == StatementString \/ ProgramString

AstSpec == AstInit /\ [][AstNext]_vars

TestLet ==
    [LetStatement(Token("LET", w_let), Identifier(Token("IDENT", w_myVar), w_myVar))
        EXCEPT !.value = Identifier(Token("IDENT", w_anotherVar), w_anotherVar)]

TestLetText == <<"l","e","t"," ","m","y","V","a","r"," ","="," ","a","n","o","t","h","e","r","V","a","r",";">>

\* the texts of the first n statements of the Program, one after another
RECURSIVE TextsUpTo(_)
TextsUpTo(n) ==
    IF n = 0 THEN <<>> ELSE TextsUpTo(n - 1) \o Statement_string(program[n])

\* C12: the string() of a Let statement with token literal t, name n and
\* a present value v is t, a space, n, " = ", the string() of v and ";"
\* (token "let", name "myVar", value Identifier "anotherVar" give
\* "let myVar = anotherVar;"), and the string() of a Program is the
\* string()s of its statements one after another in their order.
C12_LetString ==
    /\ (pc = "statement_string" /\ stmt.kind = "LetStatement"
                                /\ stmt.value # NoneOpt) =>
          out = stmt.token.literal \o <<" ">> \o stmt.name.value
                    \o <<" ", "=", " ">> \o stmt.value.value \o <<";">>
    /\ (pc = "statement_string" /\ stmt = TestLet) => out = TestLetText
    /\ pc = "program_string" => out = TextsUpTo(Len(program))
    /\ (pc = "program_string" /\ program = <<TestLet>>) => out = TestLetText

C12_Witness ==
    /\ pc = "program_string"
    /\ Len(program) = 2
    /\ program[1] = TestLet
    /\ program[2].kind = "LetStatement"
    /\ program[2].value # NoneOpt
    /\ program[2].name.value = w_foobar
    /\ out = TestLetText \o Statement_string(program[2])

====
